---- MODULE Spec2Model ----
(***************************************************************************)
(* Inventory Auto Activate/Deactivate: the tenant scheduler, the batch     *)
(* mutation executor, the manual deactivation action and the reactivation  *)
(* webhook, as a state machine.                                            *)
(*                                                                         *)
(* src/app/services/scheduler.server.ts holds two definitions of every     *)
(* scheduler function.  Lines 1-308 (a self re-arming setTimeout guarded   *)
(* by global.__isScanning, a per-tenant try/catch, currentStatus writes    *)
(* and a stop check before every item) are modelled under revision "v2";   *)
(* lines 310-604 (setInterval(runAutoScan), no guard, no status writes,    *)
(* tag and status as two requests) under revision "v1".  One behaviour of  *)
(* the model runs one of the two; definitions of the "v1" code carry the   *)
(* suffix _v1.                                                             *)
(*                                                                         *)
(* The remote catalog (Shopify Admin GraphQL) may answer a request with    *)
(* userErrors or fail it with an exception, chosen nondeterministically.   *)
(* The Run-State Store (Prisma) may fail the calls the batch executor      *)
(* makes per item outside the item's try (the stop check, the progress     *)
(* write); its other calls are taken to answer.                            *)
(***************************************************************************)
EXTENDS Integers, Sequences, FiniteSets, TLC

VARIABLES
    revision,           \* which definition of the scheduler this process runs
    timeZone,           \* the time zone of the process (the Date methods' local time)
    probe,              \* the last value a due-time or classifier computation returned
    clock,              \* wall clock, in seconds
    settings,           \* table Settings, one row per shop
    activityLog,        \* table ActivityLog, in insertion order
    product,            \* the remote catalog: status, marker tag and stock per product
    schedulerInterval,  \* global.__schedulerInterval is set (v2)
    schedulerStarted,   \* module variable schedulerStarted (v1)
    timerArmed,         \* the number of timers of the scheduler that are set
    timerDue,           \* a delay has elapsed and the callback has not run yet
    isScanning,         \* global.__isScanning (v2)
    cycle,              \* the invocations of runAutoScan
    scan,               \* the invocations of executeScanForShop / scanAndDeactivate
    manual,             \* the dashboard's deactivate action in flight
    hook,               \* the deliveries of inventory_levels/update being handled
    debugLeft,          \* debug scans still to be requested
    savesLeft,          \* settings saves still to be requested
    manualLeft,         \* manual deactivations still to be requested
    hooksLeft           \* notifications still to be delivered

vars == <<revision, timeZone, probe, clock, settings, activityLog, product, schedulerInterval,
          schedulerStarted, timerArmed, timerDue, isScanning, cycle, scan, manual,
          hook, debugLeft, savesLeft, manualLeft, hooksLeft>>

\* what the scheduler, the scan and the settings page leave alone
AuditVars == <<manual, hook, manualLeft, hooksLeft>>

---------------------------------------------------------------------------
\* Bounds of the model
MaxTicks == 2
MaxDebug == 1
MaxSaves == 1
MaxManual == 1
MaxHooks == 2
MaxVariants == 2
MaxTotal == 21
PageLimit == 1

---------------------------------------------------------------------------
\* The tenants and the remote catalog
Shops == {"s1", "s2"}
ShopOrder == <<"s1", "s2">>
Products == {"p1", "p2"}
Catalog(shop) == IF shop = "s1" THEN <<"p1", "p2">> ELSE <<>>

NoTime == -1
SecondsPerMinute == 60
SecondsPerDay == 86400
\* the delay of v2's setTimeout and the period of v1's setInterval
TimeoutSeconds == 30
IntervalSeconds == 60
DefaultMinDays == 90
ProgressEvery == 10
\* the instant the model starts at, in seconds; catalog timestamps lie before it
StartTime == 10000000

\* the invocations of runAutoScan that may be in flight together, and the
\* callers of executeScanForShop: a cycle, or the debug route
CycleIds == {1, 2}
DebugRunner == 0
Runners == CycleIds \cup {DebugRunner}
\* the deliveries of a notification that may be handled together
HookIds == {1, 2}

---------------------------------------------------------------------------
\* Sequence helpers
Range(seq) == {seq[i] : i \in 1..Len(seq)}

RECURSIVE SelectFrom(_, _, _)
\* the elements of seq from index i on that are in set, in order
SelectFrom(seq, i, set) ==
    IF i > Len(seq) THEN <<>>
    ELSE IF seq[i] \in set THEN <<seq[i]>> \o SelectFrom(seq, i + 1, set)
    ELSE SelectFrom(seq, i + 1, set)

Take(seq, n) == SubSeq(seq, 1, IF n < Len(seq) THEN n ELSE Len(seq))

IndexOf(seq, x) == CHOOSE i \in 1..Len(seq) : seq[i] = x

---------------------------------------------------------------------------
\* currentStatus values: "IDLE", "Running Scan...", "Deactivating: k/n items..."
Idle == [text |-> "IDLE", processed |-> 0, total |-> 0]
RunningScan == [text |-> "Running Scan...", processed |-> 0, total |-> 0]
Deactivating(k, n) == [text |-> "Deactivating", processed |-> k, total |-> n]

DefaultSettings ==
    [isActive |-> FALSE, autoReactivate |-> TRUE, frequency |-> 1, frequencyUnit |-> "days",
     minDaysInactive |-> DefaultMinDays, lastRunAt |-> NoTime,
     lastScanType |-> "NONE", lastScanResults |-> <<>>, currentStatus |-> Idle]

\* a write that replaces the row: the fields not given fall back to the defaults
Merge_Replace(row, data) ==
    [f \in DOMAIN row |-> IF f \in DOMAIN data THEN data[f] ELSE DefaultSettings[f]]

\* db.settings.update / the update branch of upsert: a merge of the given fields
Merge(row, data) ==
    [f \in DOMAIN row |-> IF f \in DOMAIN data THEN data[f] ELSE row[f]]

IdleCycle == [pc |-> "idle", now |-> NoTime, settingsList |-> <<>>, i |-> 0]

\* One invocation of executeScanForShop: the locals of scanAndDeactivate and
\* the last mutation's response.  error (an exception ended the invocation)
\* and startedActive (isActive when the batch began) record history only.
IdleScan ==
    [pc |-> "idle", shop |-> "s1", minDays |-> DefaultMinDays, hasRequest |-> TRUE,
     cursor |-> 0, candidates |-> <<>>,
     processed |-> 0, deactivatedItems |-> <<>>,
     tagOk |-> FALSE, updateOk |-> FALSE,
     error |-> FALSE, startedActive |-> FALSE]

\* The deactivate action of the dashboard: the selected products, the one
\* deactivateProducts or the log loop is at, and (history only) the products
\* whose status change this request made.
IdleManual == [pc |-> "idle", shop |-> "s1", products |-> <<>>, k |-> 0, applied |-> {},
               days |-> DefaultMinDays, noData |-> FALSE]

\* One delivery of inventory_levels/update: the product the lookup resolved
\* and the response of the combined update.
\* nothing computed yet
NoProbe == [fn |-> "none"]

\* payload.available is absent
Undefined == -1

IdleHook == [pc |-> "idle", shop |-> "s1", item |-> "none", available |-> Undefined,
             productId |-> "none", updateOk |-> FALSE, tagOk |-> FALSE]

---------------------------------------------------------------------------
Init ==
    /\ revision \in {"v1", "v2"}
    /\ timeZone = "UTC"
    /\ probe = NoProbe
    /\ clock = StartTime
    /\ settings = [s \in Shops |->
                      Merge(DefaultSettings,
                            [isActive |-> TRUE, frequencyUnit |-> "minutes",
                             frequency |-> IF s = "s1" THEN 2 ELSE 1])]
    /\ activityLog = <<>>
    /\ product = [p \in Products |-> [status |-> "ACTIVE", tagged |-> FALSE, stock |-> 0]]
    /\ schedulerInterval = FALSE
    /\ schedulerStarted = FALSE
    /\ timerArmed = 0
    /\ timerDue = FALSE
    /\ isScanning = FALSE
    /\ cycle = [c \in CycleIds |-> IdleCycle]
    /\ scan = [r \in Runners |-> IdleScan]
    /\ manual = IdleManual
    /\ hook = [h \in HookIds |-> IdleHook]
    /\ debugLeft = MaxDebug
    /\ savesLeft = MaxSaves
    /\ manualLeft = MaxManual
    /\ hooksLeft = MaxHooks

\* no scheduler, no handler and no scan has started
NothingStarted ==
    /\ schedulerInterval = FALSE
    /\ schedulerStarted = FALSE
    /\ timerArmed = 0
    /\ timerDue = FALSE
    /\ isScanning = FALSE
    /\ cycle = [c \in CycleIds |-> IdleCycle]
    /\ scan = [r \in Runners |-> IdleScan]
    /\ manual = IdleManual
    /\ hook = [h \in HookIds |-> IdleHook]
    /\ debugLeft = MaxDebug
    /\ savesLeft = MaxSaves
    /\ manualLeft = MaxManual
    /\ hooksLeft = MaxHooks

---------------------------------------------------------------------------
\* The remote catalog's product nodes, as the page query returns them:
\* productType and, per variant, tracked, whether an inventory level exists,
\* its available quantity and its updatedAt (seconds).
Variant(tracked, hasLevel, available, updatedAt) ==
    [tracked |-> tracked, hasLevel |-> hasLevel, available |-> available,
     updatedAt |-> updatedAt]

Node(p) ==
    IF p = "p2"
    THEN [productType |-> "", variants |-> <<Variant(TRUE, TRUE, 0, 1000), Variant(TRUE, TRUE, 0, 2000)>>]
    ELSE [productType |-> "", variants |-> <<Variant(TRUE, TRUE, 0, 1000)>>]

\* the product types of the catalog, "" for none
ProductTypes == {"", "Apparel", "Gift Card", "giftcard", "GIFTCARD", "E-Gift Cards"}

\* String.prototype.toLowerCase over ProductTypes
toLowerCase(t) ==
    CASE t = "Apparel" -> "apparel"
      [] t = "Gift Card" -> "gift card"
      [] t = "GIFTCARD" -> "giftcard"
      [] t = "E-Gift Cards" -> "e-gift cards"
      [] OTHER -> t

\* lower.includes("gift card") over the lower-cased ProductTypes
IncludesGiftCard(lower) == lower \in {"gift card", "e-gift cards"}

\* the gift-card test of the scheduled scan
IsGiftCard(productType) ==
    /\ productType # ""
    /\ IncludesGiftCard(toLowerCase(productType)) \/ productType = "giftcard"

\* the gift-card test of the manual scan: both comparisons on the lower case
IsGiftCard_manual(productType) ==
    /\ productType # ""
    /\ LET type == toLowerCase(productType)
       IN  IncludesGiftCard(type) \/ type = "giftcard"

\* the quantities of a variant's first inventory level as the page query
\* returns them: quantities(names: ["available"]) { quantity }
quantities(v) == IF v.hasLevel THEN <<[quantity |-> v.available]>> ELSE <<>>

\* quantities.length > 0 ? quantities[0].quantity : 0
Available(v) ==
    LET q == quantities(v) IN IF Len(q) > 0 THEN q[1].quantity ELSE 0

\* quantities.find(q => q.name === "available")?.quantity || 0
Available_manual(v) ==
    LET q == quantities(v)
        found == {i \in DOMAIN q : "name" \in DOMAIN q[i] /\ q[i].name = "available"}
    IN  IF found = {} THEN 0
        ELSE q[CHOOSE i \in found : \A j \in found : i <= j].quantity

\* Math.round in place of Math.floor
daysInactive_Rounded(diff) == (diff + (SecondsPerDay \div 2)) \div SecondsPerDay

\* Math.floor(diff / (1000 * 60 * 60 * 24))
daysInactive(diff) == diff \div SecondsPerDay

\* the test of mostRecentUpdate without its lower bound
HasTimestamp_Any(mostRecentUpdate) == mostRecentUpdate >= 0

\* mostRecentUpdate > 0: some variant had an inventory level
HasTimestamp(mostRecentUpdate) == mostRecentUpdate > 0

\* the cutoff test with >= in place of >
Exceeds_OrEqual(diff, minDays) == diff >= minDays * SecondsPerDay

\* diff > cutoffMs
Exceeds(diff, minDays) == diff > minDays * SecondsPerDay

RECURSIVE ScanVariants_Last(_, _, _)
\* the variant loop with the last level's updatedAt in place of the latest
ScanVariants_Last(variants, i, mostRecentUpdate) ==
    IF i > Len(variants) THEN <<TRUE, mostRecentUpdate>>
    ELSE LET v == variants[i] IN
         IF ~v.tracked THEN <<FALSE, mostRecentUpdate>>
         ELSE IF ~v.hasLevel THEN ScanVariants_Last(variants, i + 1, mostRecentUpdate)
         ELSE IF v.available > 0 THEN <<FALSE, mostRecentUpdate>>
         ELSE ScanVariants_Last(variants, i + 1, v.updatedAt)

RECURSIVE ScanVariants(_, _, _)
\* the variant loop: <<allVariantsZero, mostRecentUpdate>>
ScanVariants(variants, i, mostRecentUpdate) ==
    IF i > Len(variants) THEN <<TRUE, mostRecentUpdate>>
    ELSE LET v == variants[i] IN
         IF ~v.tracked THEN <<FALSE, mostRecentUpdate>>
         ELSE IF ~v.hasLevel THEN ScanVariants(variants, i + 1, mostRecentUpdate)
         ELSE IF v.available > 0 THEN <<FALSE, mostRecentUpdate>>
         ELSE ScanVariants(variants, i + 1,
                           IF v.updatedAt > mostRecentUpdate THEN v.updatedAt
                           ELSE mostRecentUpdate)

\* the node loop of the scheduled scan on one node at instant now
Classify(node, now, minDays) ==
    LET seen == [i \in DOMAIN node.variants |->
                    [node.variants[i] EXCEPT !.available = Available(node.variants[i])]]
        r == ScanVariants(seen, 1, 0)
        diff == now - r[2]
    IN  [candidate |-> /\ ~IsGiftCard(node.productType)
                       /\ r[1]
                       /\ HasTimestamp(r[2])
                       /\ Exceeds(diff, minDays),
         daysInactive |-> daysInactive(diff)]

\* the node loop of the manual scan on one node at instant now
Classify_manual(node, now, minDays) ==
    LET seen == [i \in DOMAIN node.variants |->
                    [node.variants[i] EXCEPT !.available = Available_manual(node.variants[i])]]
        r == ScanVariants(seen, 1, 0)
        diff == now - r[2]
    IN  [candidate |-> /\ ~IsGiftCard_manual(node.productType)
                       /\ r[1]
                       /\ HasTimestamp(r[2])
                       /\ Exceeds(diff, minDays),
         daysInactive |-> daysInactive(diff)]

\* whether a node of a page becomes a candidate at instant now
IsCandidate(p, now, minDays) == Classify(Node(p), now, minDays).candidate

\* the query filter "status:active AND inventory_total:<=0", evaluated remotely
MatchesQuery(p) == product[p].status = "ACTIVE" /\ product[p].stock <= 0

---------------------------------------------------------------------------
\* the time between two runs of the timer callback
TickSeconds == IF revision = "v2" THEN TimeoutSeconds ELSE IntervalSeconds

\* Due-time
\* Date: an instant is a number of seconds since 2026-10-24T00:00:00Z; the
\* methods getMinutes, setMinutes, getDate and setDate work on the fields of
\* the local time of the process. Europe/Madrid leaves summer time at
\* 2026-10-25T01:00:00Z (03:00 local becomes 02:00 local).
Zones == {"UTC", "Europe/Madrid"}

SecondsPerHour == 60 * SecondsPerMinute

Offset(zone, t) ==
    LET fallBack == SecondsPerDay + SecondsPerHour
    IN  IF zone = "UTC" THEN 0
        ELSE IF t < fallBack THEN 2 * SecondsPerHour ELSE SecondsPerHour

LocalTime(zone, t) == t + Offset(zone, t)

\* the instant of a local time: the earliest one when the local time occurs
\* twice, the offset before the transition when it does not occur
UTC(zone, local) ==
    LET possibleInstants == {t \in {local - 2 * SecondsPerHour, local - SecondsPerHour, local} :
                                LocalTime(zone, t) = local}
    IN  IF possibleInstants # {}
        THEN CHOOSE t \in possibleInstants : \A u \in possibleInstants : t <= u
        ELSE local - Offset(zone, local - 2 * SecondsPerHour)

\* the calendar around the epoch: day 0 is October 24th, day 8 November 1st,
\* day 38 December 1st; later days are counted from December 1st
MonthFromDay(day) == IF day < 8 THEN 10 ELSE IF day < 38 THEN 11 ELSE 12

\* the day of the first of a month
MonthStart(month) == IF month = 10 THEN -23 ELSE IF month = 11 THEN 8 ELSE 38

getMinutes(zone, t) ==
    ((LocalTime(zone, t) % SecondsPerDay) % SecondsPerHour) \div SecondsPerMinute

\* the hour and the second of the local time kept, the minute replaced
setMinutes(zone, t, min) ==
    LET local == LocalTime(zone, t)
        day == local \div SecondsPerDay
        hour == (local % SecondsPerDay) \div SecondsPerHour
        sec == local % SecondsPerMinute
    IN  UTC(zone, day * SecondsPerDay
                    + hour * SecondsPerHour + min * SecondsPerMinute + sec)

getDate(zone, t) ==
    LET day == LocalTime(zone, t) \div SecondsPerDay
    IN  day - MonthStart(MonthFromDay(day)) + 1

\* the month and the time of day of the local time kept, the date replaced
setDate(zone, t, date) ==
    LET local == LocalTime(zone, t)
        month == MonthFromDay(local \div SecondsPerDay)
        day == MonthStart(month) + date - 1
    IN  UTC(zone, day * SecondsPerDay + (local % SecondsPerDay))

shouldRun(s, now) ==
    IF ~s.isActive THEN FALSE
    ELSE IF s.lastRunAt = NoTime THEN TRUE
    ELSE LET lastRun == s.lastRunAt
             nextRun == IF s.frequencyUnit = "minutes"
                        THEN setMinutes(timeZone, lastRun,
                                        getMinutes(timeZone, lastRun) + s.frequency)
                        ELSE setDate(timeZone, lastRun,
                                     getDate(timeZone, lastRun) + s.frequency)
         IN  now >= nextRun

shouldRun_v1(s, now) ==
    IF s.lastRunAt = NoTime THEN TRUE
    ELSE LET diff == now - s.lastRunAt
             frequencySeconds == IF s.frequencyUnit = "minutes"
                                 THEN s.frequency * SecondsPerMinute
                                 ELSE s.frequency * SecondsPerDay
         IN  diff >= frequencySeconds

IsDue(s, now) == IF revision = "v2" THEN shouldRun(s, now) ELSE shouldRun_v1(s, now)

---------------------------------------------------------------------------
\* The timer and runAutoScan
SchedulerVars == <<schedulerInterval, schedulerStarted, timerArmed, timerDue, isScanning>>

\* a guard that never holds
AlreadyStarted_Never == FALSE

\* the guard of initScheduler: global.__schedulerInterval (v2), the module
\* variable schedulerStarted (v1)
AlreadyStarted == IF revision = "v2" THEN schedulerInterval ELSE schedulerStarted

\* a scheduleNextRun that sets no timer
scheduleNextRun_Lost(pending) == 0

\* v2, scheduleNextRun: the timers set after it, of pending before: it clears
\* the timer of the handle, if that is still set, and sets one
scheduleNextRun(pending) == IF pending > 0 THEN pending ELSE 1

initScheduler ==
    /\ revision = "v2"
    /\ IF AlreadyStarted
       THEN UNCHANGED <<timerArmed, schedulerInterval>>
       ELSE timerArmed' = scheduleNextRun(timerArmed) /\ schedulerInterval' = TRUE
    /\ UNCHANGED <<revision, timeZone, probe, clock, settings, activityLog, product, schedulerStarted,
                   timerDue, isScanning, cycle, scan, debugLeft, savesLeft, AuditVars>>

\* v1: setInterval adds a timer that stays
initScheduler_v1 ==
    /\ revision = "v1"
    /\ IF AlreadyStarted
       THEN UNCHANGED <<schedulerStarted, timerArmed>>
       ELSE schedulerStarted' = TRUE /\ timerArmed' = timerArmed + 1
    /\ UNCHANGED <<revision, timeZone, probe, clock, settings, activityLog, product, schedulerInterval,
                   timerDue, isScanning, cycle, scan, debugLeft, savesLeft, AuditVars>>

\* a row as runAutoScan uses it: the fields the tenant loop and shouldRun read
Row(shop, s) ==
    [shop |-> shop, isActive |-> s.isActive, frequency |-> s.frequency,
     frequencyUnit |-> s.frequencyUnit, minDaysInactive |-> s.minDaysInactive,
     lastRunAt |-> s.lastRunAt]

\* db.settings.findMany({ where: { isActive: true } }): a snapshot of the rows
EnabledSettings ==
    LET rows == [i \in 1..Len(ShopOrder) |-> Row(ShopOrder[i], settings[ShopOrder[i]])]
        F[i \in 0..Len(rows)] ==
            IF i = 0 THEN <<>>
            ELSE IF rows[i].isActive THEN Append(F[i - 1], rows[i]) ELSE F[i - 1]
    IN  F[Len(rows)]

\* a tenant loop that ends after its first row
NextDue_One(list, i, now) ==
    IF i = 1 /\ i <= Len(list) /\ IsDue(list[1], now) THEN 1 ELSE Len(list) + 1

RECURSIVE NextDue(_, _, _)
\* the tenant loop up to its next due tenant: the index of the first row from
\* i on that shouldRun selects, Len(list) + 1 when none is left
NextDue(list, i, now) ==
    IF i > Len(list) THEN i
    ELSE IF IsDue(list[i], now) THEN i
    ELSE NextDue(list, i + 1, now)

\* runAutoScan goes on from row i of its list: to the next due tenant, or to
\* its end, where v2's timer callback clears the busy flag and re-arms
Continue(c, now, list, i) ==
    LET j == NextDue(list, i, now) IN
    IF j > Len(list)
    THEN /\ cycle' = [cycle EXCEPT ![c] = IdleCycle]
         /\ IF revision = "v2"
            THEN /\ isScanning' = FALSE
                 /\ timerArmed' = scheduleNextRun(IF cycle[c].pc = "idle"
                                                  THEN timerArmed - 1 ELSE timerArmed)
            ELSE UNCHANGED <<isScanning, timerArmed>>
    ELSE /\ cycle' = [cycle EXCEPT ![c] =
                         [pc |-> "loop", now |-> now, settingsList |-> list, i |-> j]]
         /\ IF revision = "v2" /\ cycle[c].pc = "idle"
            THEN isScanning' = TRUE /\ timerArmed' = timerArmed - 1
            ELSE UNCHANGED <<isScanning, timerArmed>>

FreeCycle ==
    CHOOSE c \in CycleIds :
        cycle[c].pc = "idle" /\ \A d \in CycleIds : cycle[d].pc = "idle" => c <= d

\* the setTimeout callback: skip when a cycle is in flight (and re-arm), else
\* run a cycle, from its findMany to its first due tenant
TimerFires ==
    /\ revision = "v2"
    /\ timerDue
    /\ timerDue' = FALSE
    /\ IF isScanning
       THEN timerArmed' = scheduleNextRun(timerArmed - 1) /\ UNCHANGED <<isScanning, cycle>>
       ELSE Continue(FreeCycle, clock, EnabledSettings, 1)
    /\ UNCHANGED <<revision, timeZone, probe, clock, settings, activityLog, product, schedulerInterval,
                   schedulerStarted, scan, debugLeft, savesLeft, AuditVars>>

\* the setInterval callback: runAutoScan itself
TimerFires_v1 ==
    /\ revision = "v1"
    /\ timerDue
    /\ timerDue' = FALSE
    /\ \E c \in CycleIds : cycle[c].pc = "idle"
    /\ Continue(FreeCycle, clock, EnabledSettings, 1)
    /\ UNCHANGED <<revision, timeZone, probe, clock, settings, activityLog, product, schedulerInterval,
                   schedulerStarted, scan, debugLeft, savesLeft, AuditVars>>

AdvanceClock ==
    /\ clock < StartTime + MaxTicks * TickSeconds
    /\ clock' = clock + TickSeconds
    /\ timerDue' = (timerDue \/ timerArmed > 0)
    /\ UNCHANGED <<revision, timeZone, probe, settings, activityLog, product, schedulerInterval,
                   schedulerStarted, timerArmed, isScanning, cycle, scan, debugLeft,
                   savesLeft, AuditVars>>

\* executeScanForShop begins: shopify.unauthenticated.admin(shop) answers or
\* throws; v2 rethrows to the caller, v1 catches and returns []
StartScan(r, shop, minDays, authOk) ==
    scan' = [scan EXCEPT ![r] =
                [IdleScan EXCEPT !.pc = IF authOk THEN "fetch"
                                        ELSE IF revision = "v2" THEN "threw" ELSE "done",
                                 !.shop = shop, !.minDays = minDays, !.error = ~authOk]]

\* a due tenant: v2 sets its status to "Running Scan...", then both call
\* executeScanForShop
NextTenant(c) ==
    /\ cycle[c].pc = "loop"
    /\ LET row == cycle[c].settingsList[cycle[c].i] IN
       /\ cycle' = [cycle EXCEPT ![c].pc = "tenant"]
       /\ settings' = IF revision = "v2"
                      THEN [settings EXCEPT ![row.shop] =
                               Merge(@, [currentStatus |-> RunningScan])]
                      ELSE settings
       /\ \E authOk \in BOOLEAN : StartScan(c, row.shop, row.minDaysInactive, authOk)
    /\ UNCHANGED <<revision, timeZone, probe, clock, activityLog, product, SchedulerVars,
                   debugLeft, savesLeft, AuditVars>>

\* a final write that leaves currentStatus out
AutoRunData_NoStatus(now, deactivatedItems) ==
    [lastRunAt |-> now, lastScanType |-> "AUTO",
     lastScanResults |-> deactivatedItems]

\* the settings update after a tenant's pipeline returned
AutoRunData(now, deactivatedItems) ==
    [lastRunAt |-> now, lastScanType |-> "AUTO",
     lastScanResults |-> deactivatedItems, currentStatus |-> Idle]

AutoRunData_v1(now, deactivatedItems) ==
    [lastRunAt |-> now, lastScanType |-> "AUTO",
     lastScanResults |-> deactivatedItems]

TenantDone(c) ==
    /\ cycle[c].pc = "tenant"
    /\ scan[c].pc = "done"
    /\ settings' = [settings EXCEPT ![scan[c].shop] =
                       Merge(@, IF revision = "v2"
                                THEN AutoRunData(cycle[c].now, scan[c].deactivatedItems)
                                ELSE AutoRunData_v1(cycle[c].now, scan[c].deactivatedItems))]
    /\ Continue(c, cycle[c].now, cycle[c].settingsList, cycle[c].i + 1)
    /\ scan' = [scan EXCEPT ![c] = IdleScan]
    /\ UNCHANGED <<revision, timeZone, probe, clock, activityLog, product, schedulerInterval,
                   schedulerStarted, timerDue, debugLeft, savesLeft, AuditVars>>

\* the per-tenant catch of runAutoScan (v2)
TenantFailed(c) ==
    /\ cycle[c].pc = "tenant"
    /\ scan[c].pc = "threw"
    /\ settings' = [settings EXCEPT ![scan[c].shop] = Merge(@, [currentStatus |-> Idle])]
    /\ Continue(c, cycle[c].now, cycle[c].settingsList, cycle[c].i + 1)
    /\ scan' = [scan EXCEPT ![c] = IdleScan]
    /\ UNCHANGED <<revision, timeZone, probe, clock, activityLog, product, schedulerInterval,
                   schedulerStarted, timerDue, debugLeft, savesLeft, AuditVars>>

---------------------------------------------------------------------------
\* scanAndDeactivate
ScanFrame == <<revision, timeZone, probe, clock, SchedulerVars, cycle, debugLeft, savesLeft, AuditVars>>

\* the nodes of the page after cursor, and whether more follow
PageAfter(shop, cursor) ==
    LET matching == SelectFrom(Catalog(shop), cursor + 1, {p \in Products : MatchesQuery(p)})
    IN  [nodes |-> Take(matching, PageLimit), hasNextPage |-> Len(matching) > PageLimit]

\* a failed fetch is retried
hasNextPage_Retry(ok, page) == ~ok \/ page.hasNextPage

\* the loop condition after a fetch: break on a failed one, pageInfo otherwise
hasNextPage(ok, page) == ok /\ page.hasNextPage

\* one turn of the paging loop, the fetch answering (ok) or failing; when the
\* loop ends with candidates, v2 writes the initial progress status
FetchPage(r, ok) ==
    /\ scan[r].pc = "fetch"
    /\ ok => scan[r].hasRequest
    /\ LET shop == scan[r].shop
           page == PageAfter(shop, scan[r].cursor)
           found == IF ok
                    THEN SelectFrom(page.nodes, 1,
                                    {p \in Products : IsCandidate(p, clock, scan[r].minDays)})
                    ELSE <<>>
           candidates == scan[r].candidates \o found
           more == hasNextPage(ok, page)
           cursor == IF ok /\ page.nodes # <<>>
                     THEN IndexOf(Catalog(shop), page.nodes[Len(page.nodes)])
                     ELSE scan[r].cursor
       IN  /\ scan' = [scan EXCEPT ![r].candidates = candidates,
                                   ![r].cursor = IF more THEN cursor ELSE 0,
                                   ![r].startedActive = ~more /\ settings[shop].isActive,
                                   ![r].pc = IF more THEN "fetch"
                                             ELSE IF candidates = <<>> THEN "done"
                                             ELSE IF revision = "v2" THEN "item"
                                             ELSE "tag"]
           /\ settings' = IF ~more /\ candidates # <<>> /\ revision = "v2"
                          THEN [settings EXCEPT ![shop] =
                                   Merge(@, [currentStatus |-> Deactivating(0, Len(candidates))])]
                          ELSE settings
    /\ UNCHANGED <<activityLog, product>>
    /\ UNCHANGED ScanFrame

LogEntry(shop, productId, method, action) ==
    [shop |-> shop, productId |-> productId, method |-> method, action |-> action]

\* the remote effect of tagsAdd and productUpdate(status: DRAFT) on a product
DeactivateRemote(p, tagOk, updateOk) ==
    [product EXCEPT ![p].status = IF updateOk THEN "DRAFT" ELSE @,
                    ![p].tagged = IF tagOk THEN TRUE ELSE @]

\* a loop that takes the candidates from the end of the list
Current_Reversed(r) == scan[r].candidates[Len(scan[r].candidates) - scan[r].processed]

\* the candidate the loop is at
Current(r) == scan[r].candidates[scan[r].processed + 1]

\* v2, before each item: re-read isActive and stop when it is off; the read
\* is outside the item's try, so a failure of it leaves scanAndDeactivate
CheckStop(r) ==
    /\ scan[r].pc = "item"
    /\ \E threw \in BOOLEAN :
          scan' = IF threw
                  THEN [scan EXCEPT ![r].pc = "threw", ![r].error = TRUE]
                  ELSE [scan EXCEPT ![r].pc = IF settings[scan[r].shop].isActive
                                             THEN "mutate" ELSE "done"]
    /\ UNCHANGED <<settings, activityLog, product>>
    /\ UNCHANGED ScanFrame

\* v2, the combined mutation: both root fields run and each may report
\* userErrors, or the request fails with an exception
Mutate(r) ==
    /\ scan[r].pc = "mutate"
    /\ \E threw \in BOOLEAN, tagOk \in BOOLEAN, updateOk \in BOOLEAN :
          /\ threw => ~tagOk /\ ~updateOk
          /\ product' = DeactivateRemote(Current(r), tagOk, updateOk)
          /\ scan' = [scan EXCEPT ![r].pc = "finish", ![r].tagOk = tagOk,
                                  ![r].updateOk = updateOk]
    /\ UNCHANGED <<settings, activityLog>>
    /\ UNCHANGED ScanFrame

\* whether the item is logged and returned
Succeeded(tagOk, updateOk) == tagOk /\ updateOk

Succeeded_v1(tagOk, updateOk) == updateOk

\* a progress status after every item
ProgressDue_Always(processed, total) == TRUE

\* whether the progress status is written after the processed-th item
ProgressDue(processed, total) == processed % ProgressEvery = 0 \/ processed = total

\* v2, the rest of the item: the log entry of a success, then the finally
\* block, whose progress write is outside the try: a failure of it leaves
\* scanAndDeactivate
Finish(r) ==
    /\ scan[r].pc = "finish"
    /\ revision = "v2"
    /\ LET shop == scan[r].shop
           ok == Succeeded(scan[r].tagOk, scan[r].updateOk)
           processed == scan[r].processed + 1
           total == Len(scan[r].candidates)
       IN  \E writeThrew \in (IF ProgressDue(processed, total) THEN BOOLEAN ELSE {FALSE}) :
              LET logged == ok IN
              /\ activityLog' = IF logged
                                THEN Append(activityLog,
                                            LogEntry(shop, Current(r), "AUTO", "AUTO-DEACTIVATE"))
                                ELSE activityLog
              /\ scan' = [scan EXCEPT
                             ![r].deactivatedItems = IF logged THEN Append(@, Current(r)) ELSE @,
                             ![r].processed = processed,
                             ![r].tagOk = FALSE, ![r].updateOk = FALSE,
                             ![r].error = writeThrew,
                             ![r].pc = IF writeThrew THEN "threw"
                                       ELSE IF processed = total THEN "done" ELSE "item"]
              /\ settings' = IF ProgressDue(processed, total) /\ ~writeThrew
                             THEN [settings EXCEPT ![shop] =
                                      Merge(@, [currentStatus |-> Deactivating(processed, total)])]
                             ELSE settings
    /\ UNCHANGED product
    /\ UNCHANGED ScanFrame

NextItem_v1(r) ==
    IF scan[r].processed + 1 = Len(scan[r].candidates) THEN "done" ELSE "tag"

\* v1, the tag request: userErrors are logged and the item goes on; an
\* exception ends the item
TagAdd_v1(r) ==
    /\ scan[r].pc = "tag"
    /\ \E threw \in BOOLEAN, tagOk \in BOOLEAN :
          /\ threw => ~tagOk
          /\ product' = DeactivateRemote(Current(r), tagOk, FALSE)
          /\ scan' = IF threw
                     THEN [scan EXCEPT ![r].pc = NextItem_v1(r), ![r].processed = @ + 1]
                     ELSE [scan EXCEPT ![r].pc = "draft", ![r].tagOk = tagOk]
    /\ UNCHANGED <<settings, activityLog>>
    /\ UNCHANGED ScanFrame

\* v1, the status request
SetDraft_v1(r) ==
    /\ scan[r].pc = "draft"
    /\ \E threw \in BOOLEAN, updateOk \in BOOLEAN :
          /\ threw => ~updateOk
          /\ product' = DeactivateRemote(Current(r), FALSE, updateOk)
          /\ scan' = IF Succeeded_v1(scan[r].tagOk, updateOk)
                     THEN [scan EXCEPT ![r].pc = "finish", ![r].updateOk = updateOk]
                     ELSE [scan EXCEPT ![r].pc = NextItem_v1(r), ![r].processed = @ + 1,
                                       ![r].tagOk = FALSE]
    /\ UNCHANGED <<settings, activityLog>>
    /\ UNCHANGED ScanFrame

\* v1, the log entry of a success
Finish_v1(r) ==
    /\ scan[r].pc = "finish"
    /\ revision = "v1"
    /\ activityLog' = Append(activityLog,
                             LogEntry(scan[r].shop, Current(r), "AUTO", "AUTO-DEACTIVATE"))
    /\ scan' = [scan EXCEPT ![r].deactivatedItems = Append(@, Current(r)),
                            ![r].processed = @ + 1,
                            ![r].tagOk = FALSE, ![r].updateOk = FALSE,
                            ![r].pc = NextItem_v1(r)]
    /\ UNCHANGED <<settings, product>>
    /\ UNCHANGED ScanFrame

---------------------------------------------------------------------------
\* executeDebugScan
DebugFrame == <<revision, timeZone, probe, clock, settings, activityLog, product, SchedulerVars,
                cycle, savesLeft, AuditVars>>

executeDebugScan(shop, minDays) ==
    /\ revision = "v2"
    /\ debugLeft > 0
    /\ scan[DebugRunner].pc = "idle"
    /\ debugLeft' = debugLeft - 1
    /\ \E authOk \in BOOLEAN : StartScan(DebugRunner, shop, minDays, authOk)
    /\ UNCHANGED DebugFrame

\* v1 reads minDaysInactive from the settings row and hands the admin object
\* itself (given, or the offline one, whose lookup may fail) to
\* scanAndDeactivate, which calls client.request on it
executeDebugScan_v1(shop, adminGiven) ==
    /\ revision = "v1"
    /\ debugLeft > 0
    /\ scan[DebugRunner].pc = "idle"
    /\ debugLeft' = debugLeft - 1
    /\ \E authOk \in (IF adminGiven THEN {TRUE} ELSE BOOLEAN) :
          scan' = [scan EXCEPT ![DebugRunner] =
                      [IdleScan EXCEPT !.pc = IF authOk THEN "fetch" ELSE "done",
                                       !.shop = shop,
                                       !.minDays = settings[shop].minDaysInactive,
                                       !.hasRequest = FALSE, !.error = ~authOk]]
    /\ UNCHANGED DebugFrame

\* the debug scan returns or rejects
DebugReturn ==
    /\ scan[DebugRunner].pc \in {"done", "threw"}
    /\ scan' = [scan EXCEPT ![DebugRunner] = IdleScan]
    /\ UNCHANGED debugLeft
    /\ UNCHANGED DebugFrame

---------------------------------------------------------------------------
\* The saveSettings action of the settings page and of the dashboard

saveSettings(shop, isActive, frequency, frequencyUnit, minDaysInactive) ==
    /\ savesLeft > 0
    /\ savesLeft' = savesLeft - 1
    /\ settings' = [settings EXCEPT ![shop] =
                       Merge(@, [isActive |-> isActive, frequency |-> frequency,
                                 frequencyUnit |-> frequencyUnit,
                                 minDaysInactive |-> minDaysInactive])]
    /\ UNCHANGED <<revision, timeZone, probe, clock, activityLog, product, SchedulerVars, cycle, scan,
                   debugLeft, AuditVars>>

---------------------------------------------------------------------------
---------------------------------------------------------------------------
\* The deactivate action of the dashboard (app._index.tsx, app.manual.tsx)
\* and deactivateProducts
ManualFrame == <<revision, timeZone, probe, clock, settings, SchedulerVars, cycle, scan, hook,
                 debugLeft, savesLeft, hooksLeft>>

\* the selections a merchant can submit: products of the shop's result table
Selections(shop) ==
    {sel \in {<<>>} \cup {<<p>> : p \in Range(Catalog(shop))} \cup {Catalog(shop)} :
        sel # <<>>}

deactivate(shop, products) ==
    /\ manualLeft > 0
    /\ manual.pc = "idle"
    /\ manualLeft' = manualLeft - 1
    /\ manual' = [IdleManual EXCEPT !.pc = "tag", !.shop = shop,
                                    !.products = products, !.k = 1]
    /\ UNCHANGED <<activityLog, product>>
    /\ UNCHANGED ManualFrame

\* deactivateProducts, the tag request: its response is not read; an
\* exception ends the whole action
ManualTagAdd ==
    /\ manual.pc = "tag"
    /\ \E threw \in BOOLEAN, tagOk \in BOOLEAN :
          /\ threw => ~tagOk
          /\ product' = DeactivateRemote(manual.products[manual.k], tagOk, FALSE)
          /\ manual' = IF threw THEN IdleManual ELSE [manual EXCEPT !.pc = "draft"]
    /\ UNCHANGED <<activityLog, manualLeft>>
    /\ UNCHANGED ManualFrame

\* deactivateProducts, the status request
ManualSetDraft ==
    /\ manual.pc = "draft"
    /\ \E threw \in BOOLEAN, updateOk \in BOOLEAN :
          /\ threw => ~updateOk
          /\ product' = DeactivateRemote(manual.products[manual.k], FALSE, updateOk)
          /\ manual' =
                IF threw THEN IdleManual
                ELSE [manual EXCEPT
                         !.applied = IF updateOk THEN @ \cup {manual.products[manual.k]} ELSE @,
                         !.k = IF manual.k = Len(manual.products) THEN 1 ELSE @ + 1,
                         !.pc = IF manual.k = Len(manual.products) THEN "log" ELSE "tag"]
    /\ UNCHANGED <<activityLog, manualLeft>>
    /\ UNCHANGED ManualFrame

\* the log loop of the action: one entry per selected product
ManualLog ==
    /\ manual.pc = "log"
    /\ activityLog' = Append(activityLog,
                             LogEntry(manual.shop, manual.products[manual.k],
                                      "MANUAL", "DEACTIVATE"))
    /\ manual' = IF manual.k = Len(manual.products) THEN IdleManual
                 ELSE [manual EXCEPT !.k = @ + 1]
    /\ UNCHANGED <<product, manualLeft>>
    /\ UNCHANGED ManualFrame

---------------------------------------------------------------------------
\* The scan action of the dashboard (app._index.tsx, app.manual.tsx) and
\* scanOldProducts: products holds the candidates gathered so far, k the
\* cursor, noData (history only) whether a response came without products
ManualScanFrame == <<revision, timeZone, probe, clock, activityLog, product, SchedulerVars,
                     cycle, scan, hook, debugLeft, savesLeft, hooksLeft>>

scan_manual(shop, days) ==
    /\ manualLeft > 0
    /\ manual.pc = "idle"
    /\ manualLeft' = manualLeft - 1
    /\ manual' = [IdleManual EXCEPT !.pc = "scan", !.shop = shop, !.days = days]
    /\ UNCHANGED settings
    /\ UNCHANGED ManualScanFrame

\* one turn of scanOldProducts' paging loop: the fetch is not inside a try,
\* so an exception ends the action; a response without products ends the loop
ManualFetchPage ==
    /\ manual.pc = "scan"
    /\ \E outcome \in {"ok", "noData", "threw"} :
          LET page == PageAfter(manual.shop, manual.k)
              found == SelectFrom(page.nodes, 1,
                                  {p \in Products :
                                      Classify_manual(Node(p), clock, manual.days).candidate})
              more == outcome = "ok" /\ page.hasNextPage
          IN  manual' =
                 IF outcome = "threw" THEN IdleManual
                 ELSE IF outcome = "noData"
                      THEN [manual EXCEPT !.pc = "scanned", !.noData = TRUE, !.k = 0]
                 ELSE [manual EXCEPT
                          !.products = @ \o found,
                          !.k = IF more
                                THEN IndexOf(Catalog(manual.shop), page.nodes[Len(page.nodes)])
                                ELSE 0,
                          !.pc = IF more THEN "scan" ELSE "scanned"]
    /\ UNCHANGED <<settings, manualLeft>>
    /\ UNCHANGED ManualScanFrame

\* the action after scanOldProducts returned: the upsert of the last scan,
\* then the response { candidates, success: true }
ManualScanDone ==
    /\ manual.pc = "scanned"
    /\ settings' = [settings EXCEPT ![manual.shop] =
                       Merge(@, [lastRunAt |-> clock, lastScanType |-> "MANUAL",
                                 lastScanResults |-> manual.products])]
    /\ manual' = IdleManual
    /\ UNCHANGED manualLeft
    /\ UNCHANGED ManualScanFrame

---------------------------------------------------------------------------
\* The handler of inventory_levels/update (webhooks.inventory.update.tsx)
HookFrame == <<revision, timeZone, probe, clock, settings, SchedulerVars, cycle, scan, manual,
               debugLeft, savesLeft, manualLeft>>

\* the quantities a payload carries: none, an oversold level, zero, some stock
Availables == {Undefined, -2, 0, 5}

\* available && available > 0, without the comparison
StockReturned_Truthy(available) == available # Undefined /\ available # 0

\* available && available > 0
StockReturned(available) == available # Undefined /\ available # 0 /\ available > 0

\* a delivery arrives: nothing to do unless available > 0
webhook(h, shop, item, available) ==
    /\ hooksLeft > 0
    /\ hook[h].pc = "idle"
    /\ hooksLeft' = hooksLeft - 1
    /\ hook' = IF StockReturned(available)
               THEN [hook EXCEPT ![h] = [IdleHook EXCEPT !.pc = "lookup", !.shop = shop,
                                                         !.item = item,
                                                         !.available = available]]
               ELSE hook
    /\ UNCHANGED <<activityLog, product>>
    /\ UNCHANGED HookFrame

\* the findProduct query: the product of the inventory item, with its tags
HookLookup(h) ==
    /\ hook[h].pc = "lookup"
    /\ \E threw \in BOOLEAN :
          LET item == hook[h].item
              found == ~threw /\ item \in Products /\ product[item].tagged
          IN  hook' = [hook EXCEPT ![h] =
                          IF found THEN [@ EXCEPT !.pc = "update", !.productId = item]
                          ELSE IdleHook]
    /\ UNCHANGED <<activityLog, product, hooksLeft>>
    /\ UNCHANGED HookFrame

\* the remote effect of productUpdate(status: ACTIVE) and tagsRemove
ReactivateRemote(p, updateOk, tagOk) ==
    [product EXCEPT ![p].status = IF updateOk THEN "ACTIVE" ELSE @,
                    ![p].tagged = IF tagOk THEN FALSE ELSE @]

\* the combined reactivate mutation
HookUpdate(h) ==
    /\ hook[h].pc = "update"
    /\ \E threw \in BOOLEAN, updateOk \in BOOLEAN, tagOk \in BOOLEAN :
          /\ threw => ~updateOk /\ ~tagOk
          /\ product' = ReactivateRemote(hook[h].productId, updateOk, tagOk)
          /\ hook' = [hook EXCEPT ![h] =
                         IF threw THEN IdleHook
                         ELSE [@ EXCEPT !.pc = "log", !.updateOk = updateOk,
                                        !.tagOk = tagOk]]
    /\ UNCHANGED <<activityLog, hooksLeft>>
    /\ UNCHANGED HookFrame

\* the log entry that follows the mutation
HookLog(h) ==
    /\ hook[h].pc = "log"
    /\ activityLog' = Append(activityLog,
                             LogEntry(hook[h].shop, hook[h].productId,
                                      "WEBHOOK", "REACTIVATE"))
    /\ hook' = [hook EXCEPT ![h] = IdleHook]
    /\ UNCHANGED <<product, hooksLeft>>
    /\ UNCHANGED HookFrame

---------------------------------------------------------------------------
SchedulerNext ==
    \/ initScheduler
    \/ initScheduler_v1
    \/ TimerFires
    \/ TimerFires_v1
    \/ AdvanceClock
    \/ \E c \in CycleIds : NextTenant(c)
    \/ \E c \in CycleIds : TenantDone(c)
    \/ \E c \in CycleIds : TenantFailed(c)

ScanNext ==
    \/ \E r \in Runners, ok \in BOOLEAN : FetchPage(r, ok)
    \/ \E r \in Runners : CheckStop(r)
    \/ \E r \in Runners : Mutate(r)
    \/ \E r \in Runners : Finish(r)
    \/ \E r \in Runners : TagAdd_v1(r)
    \/ \E r \in Runners : SetDraft_v1(r)
    \/ \E r \in Runners : Finish_v1(r)

DebugNext ==
    \/ \E shop \in Shops : executeDebugScan(shop, DefaultMinDays)
    \/ \E shop \in Shops, adminGiven \in BOOLEAN : executeDebugScan_v1(shop, adminGiven)
    \/ DebugReturn

\* the form is submitted with the row's values and the switch flipped (the
\* dashboard's start and stop buttons)
SettingsNext ==
    \E shop \in Shops :
        saveSettings(shop, ~settings[shop].isActive, settings[shop].frequency,
                     settings[shop].frequencyUnit, settings[shop].minDaysInactive)

ManualNext ==
    \/ \E shop \in Shops : \E products \in Selections(shop) : deactivate(shop, products)
    \/ ManualTagAdd
    \/ ManualSetDraft
    \/ ManualLog

HookNext ==
    \/ \E h \in HookIds, shop \in Shops, available \in Availables :
          \E item \in Range(Catalog(shop)) \cup {"none"} : webhook(h, shop, item, available)
    \/ \E h \in HookIds : HookLookup(h)
    \/ \E h \in HookIds : HookUpdate(h)
    \/ \E h \in HookIds : HookLog(h)

\* The scheduler with its batches and the settings page
Next == SchedulerNext \/ ScanNext \/ SettingsNext

Spec == Init /\ [][Next]_vars

\* The scheduler next to the debug route
NextDebug == SchedulerNext \/ ScanNext \/ DebugNext

SpecDebug == Init /\ [][NextDebug]_vars

\* The manual deactivation next to the notification handler
NextAudit == ManualNext \/ HookNext

SpecAudit == Init /\ [][NextAudit]_vars

\* The notification handler on its own, over catalogs in which a product is
\* active and unmarked or was deactivated and carries the marker, and over
\* both values of each tenant's autoReactivate column
InitHook ==
    /\ revision \in {"v1", "v2"}
    /\ timeZone = "UTC"
    /\ probe = NoProbe
    /\ clock = StartTime
    /\ settings \in [Shops -> {Merge(DefaultSettings, [autoReactivate |-> b]) :
                                  b \in BOOLEAN}]
    /\ activityLog = <<>>
    /\ product \in [Products -> {[status |-> "ACTIVE", tagged |-> FALSE, stock |-> 0],
                                  [status |-> "DRAFT", tagged |-> TRUE, stock |-> 0]}]
    /\ NothingStarted

SpecHook == InitHook /\ [][HookNext]_vars

\* The manual scan on its own, over the same catalogs
ManualScanNext ==
    \/ \E shop \in Shops, days \in {1, DefaultMinDays} : scan_manual(shop, days)
    \/ ManualFetchPage
    \/ ManualScanDone

SpecManualScan == InitHook /\ [][ManualScanNext]_vars

\* Every writer of the settings row: the scheduler with its batches and the
\* settings page from the start of the process, and the manual scan with the
\* settings page once the clock has reached the last tick of the model
InitWrites ==
    /\ revision \in {"v1", "v2"}
    /\ timeZone = "UTC"
    /\ probe = NoProbe
    /\ clock \in {StartTime, StartTime + MaxTicks * TickSeconds}
    /\ settings = [s \in Shops |->
                      IF s = "s1"
                      THEN Merge(DefaultSettings, [isActive |-> TRUE])
                      ELSE DefaultSettings]
    /\ activityLog = <<>>
    /\ product = [p \in Products |-> [status |-> "ACTIVE", tagged |-> FALSE, stock |-> 0]]
    /\ schedulerInterval = FALSE
    /\ schedulerStarted = FALSE
    /\ timerArmed = 0
    /\ timerDue = FALSE
    /\ isScanning = FALSE
    /\ cycle = [c \in CycleIds |-> IdleCycle]
    /\ scan = [r \in Runners |-> IdleScan]
    /\ manual = IdleManual
    /\ hook = [h \in HookIds |-> IdleHook]
    /\ debugLeft = MaxDebug
    /\ savesLeft = MaxSaves
    /\ manualLeft = IF clock = StartTime THEN 0 ELSE MaxManual
    /\ hooksLeft = MaxHooks

SpecWrites ==
    InitWrites /\ [][SchedulerNext \/ ScanNext \/ SettingsNext \/ ManualScanNext]_vars

\* The scheduler and its scans without the settings page
SpecRun == Init /\ [][SchedulerNext \/ ScanNext]_vars

\* The same, where every awaited call settles: a cycle that can go on to,
\* or finish, a tenant does, and so does a scan that can take a step; the
\* callback of a timer whose delay has elapsed runs
SpecRunFair ==
    /\ SpecRun
    /\ WF_vars(\E c \in CycleIds : NextTenant(c) \/ TenantDone(c) \/ TenantFailed(c))
    /\ WF_vars(ScanNext)
    /\ WF_vars(TimerFires)

---------------------------------------------------------------------------
\* The due-time computations on their own: the scheduler's shouldRun and the
\* next-run instants the dashboard and the settings page show, applied to a
\* row and a clock drawn from instants around an hour's end, a day's end, a
\* month's end and the end of summer time.
LastRuns == {38700,     \* 2026-10-24T10:45:00Z
             85500,     \* 2026-10-24T23:45:00Z
             89100,     \* 2026-10-25T00:45:00Z, 02:45 summer time in Madrid
             90900,     \* 2026-10-25T01:15:00Z, 02:15 standard time in Madrid
             685800}    \* 2026-10-31T22:30:00Z, 23:30 in Madrid

Frequencies == {1, 30}

\* the distance of the clock from lastRunAt plus the flat interval
Slack == {0 - SecondsPerHour, -1, 0, SecondsPerHour - 1, SecondsPerHour}

InitDue ==
    /\ revision \in {"v1", "v2"}
    /\ timeZone \in Zones
    /\ probe = NoProbe
    /\ \E lastRunAt \in LastRuns \cup {NoTime}, frequency \in Frequencies,
          unit \in {"minutes", "days"}, slack \in Slack :
          /\ settings = [s \in Shops |->
                            Merge(DefaultSettings,
                                  [isActive |-> TRUE, lastRunAt |-> lastRunAt,
                                   frequency |-> frequency, frequencyUnit |-> unit])]
          /\ clock = (IF lastRunAt = NoTime THEN SecondsPerDay ELSE lastRunAt)
                        + frequency * (IF unit = "minutes" THEN SecondsPerMinute
                                                            ELSE SecondsPerDay)
                        + slack
    /\ activityLog = <<>>
    /\ product = [p \in Products |-> [status |-> "ACTIVE", tagged |-> FALSE, stock |-> 0]]
    /\ NothingStarted

DueFrame == <<revision, timeZone, clock, settings, activityLog, product, SchedulerVars,
              cycle, scan, debugLeft, savesLeft, AuditVars>>

\* runAutoScan asks whether a row is due
CallShouldRun(shop) ==
    /\ probe.fn = "none"
    /\ probe' = [fn |-> "shouldRun", shop |-> shop, result |-> IsDue(settings[shop], clock)]
    /\ UNCHANGED DueFrame

\* the next run the pages show: lastRunAt plus the interval in milliseconds
flatNextRun(s) ==
    IF ~s.isActive \/ s.lastRunAt = NoTime THEN NoTime
    ELSE s.lastRunAt + (IF s.frequencyUnit = "minutes"
                        THEN s.frequency * SecondsPerMinute
                        ELSE s.frequency * SecondsPerDay)

\* the dashboard computes the next run it shows
getNextRunTime(shop) ==
    /\ probe.fn = "none"
    /\ probe' = [fn |-> "getNextRunTime", shop |-> shop, result |-> flatNextRun(settings[shop])]
    /\ UNCHANGED DueFrame

\* the settings page computes the next run its countdown runs to
countdown(shop) ==
    /\ probe.fn = "none"
    /\ probe' = [fn |-> "countdown", shop |-> shop, result |-> flatNextRun(settings[shop])]
    /\ UNCHANGED DueFrame

NextDueTime ==
    \/ \E shop \in Shops : CallShouldRun(shop)
    \/ \E shop \in Shops : getNextRunTime(shop)
    \/ \E shop \in Shops : countdown(shop)

SpecDue == InitDue /\ [][NextDueTime]_vars

---------------------------------------------------------------------------
\* The classifiers on their own: the node loop of the scheduled scan and of
\* the manual scan, applied to one node of a page. The nodes are drawn from
\* the product types and from every list of up to MaxVariants variants that
\* the query filter inventory_total:<=0 lets through, at thresholds of one
\* day and of ninety days.
VariantKinds ==
    LET ages == {90 * SecondsPerDay + 1, 90 * SecondsPerDay,
                 SecondsPerDay + (SecondsPerDay \div 2)}
    IN  {Variant(tracked, FALSE, 0, 0) : tracked \in BOOLEAN}
        \cup {Variant(tracked, TRUE, available, StartTime - age) :
                tracked \in BOOLEAN, available \in {-5, 0, 5}, age \in ages}

RECURSIVE InventoryTotal(_)
\* the product's total inventory: the available quantities of its tracked variants
InventoryTotal(variants) ==
    IF variants = <<>> THEN 0
    ELSE (IF Head(variants).tracked THEN Head(variants).available ELSE 0)
         + InventoryTotal(Tail(variants))

InitClassify ==
    /\ revision \in {"v1", "v2"}
    /\ timeZone = "UTC"
    /\ clock = StartTime
    /\ \E productType \in ProductTypes,
          variants \in UNION {[1..n -> VariantKinds] : n \in 0..MaxVariants},
          minDays \in {1, DefaultMinDays} :
          /\ InventoryTotal(variants) <= 0
          /\ probe = [fn |-> "none",
                      node |-> [productType |-> productType, variants |-> variants],
                      minDays |-> minDays]
    /\ settings = [s \in Shops |-> DefaultSettings]
    /\ activityLog = <<>>
    /\ product = [p \in Products |-> [status |-> "ACTIVE", tagged |-> FALSE, stock |-> 0]]
    /\ NothingStarted

\* what a classifier answered for the node
Classified(fn, c) ==
    [fn |-> fn, node |-> probe.node, minDays |-> probe.minDays,
     candidate |-> c.candidate, daysInactive |-> c.daysInactive]

\* the scheduled scan meets the node in a page
scanAndDeactivate ==
    /\ probe.fn = "none"
    /\ probe' = Classified("scanAndDeactivate", Classify(probe.node, clock, probe.minDays))
    /\ UNCHANGED DueFrame

\* the manual scan meets the node in a page
scanOldProducts ==
    /\ probe.fn = "none"
    /\ probe' = Classified("scanOldProducts", Classify_manual(probe.node, clock, probe.minDays))
    /\ UNCHANGED DueFrame

NextClassify == scanAndDeactivate \/ scanOldProducts

SpecClassify == InitClassify /\ [][NextClassify]_vars

---------------------------------------------------------------------------
\* The batch of scanAndDeactivate (v2) as counters: a tenant with total
\* candidates, after the initial status write "Deactivating: 0/total
\* items...".  probe holds total, processed and the length of
\* deactivatedItems.
InitBatch ==
    /\ revision = "v2"
    /\ timeZone = "UTC"
    /\ clock = StartTime
    /\ \E total \in 1..MaxTotal :
          /\ probe = [fn |-> "batch", shop |-> "s1", total |-> total,
                      processed |-> 0, deactivated |-> 0]
          /\ settings = [s \in Shops |->
                            IF s = "s1"
                            THEN Merge(DefaultSettings,
                                       [isActive |-> TRUE,
                                        currentStatus |-> Deactivating(0, total)])
                            ELSE DefaultSettings]
    /\ activityLog = <<>>
    /\ product = [p \in Products |-> [status |-> "ACTIVE", tagged |-> FALSE, stock |-> 0]]
    /\ NothingStarted

\* one turn of `for (const product of candidates)`: the stop flag is on, the
\* item succeeds or fails, and the finally block counts it and writes the
\* progress status when it is due; a failure of that write leaves the batch
BatchItem ==
    /\ probe.fn = "batch"
    /\ probe.processed < probe.total
    /\ settings[probe.shop].isActive
    /\ \E ok \in BOOLEAN :
          LET processed == probe.processed + 1
              due == ProgressDue(processed, probe.total)
          IN  \E writeThrew \in (IF due THEN BOOLEAN ELSE {FALSE}) :
                 /\ probe' = [probe EXCEPT
                                 !.fn = IF writeThrew THEN "threw" ELSE @,
                                 !.processed = processed,
                                 !.deactivated = IF ok THEN @ + 1 ELSE @]
                 /\ settings' = IF due /\ ~writeThrew
                                THEN [settings EXCEPT ![probe.shop] =
                                         Merge(@, [currentStatus |->
                                                      Deactivating(processed, probe.total)])]
                                ELSE settings
    /\ UNCHANGED <<revision, timeZone, clock, activityLog, product, SchedulerVars,
                   cycle, scan, debugLeft, savesLeft, AuditVars>>

SpecBatch == InitBatch /\ [][BatchItem]_vars

---------------------------------------------------------------------------
\* Properties

\* the activity page counts both literals as a deactivation
IsDeactivate(action) == action \in {"DEACTIVATE", "AUTO-DEACTIVATE"}

RECURSIVE LastAction(_, _)
\* the action of the most recent entry of log for product p
LastAction(log, p) ==
    IF log = <<>> THEN "NONE"
    ELSE IF log[Len(log)].productId = p THEN log[Len(log)].action
    ELSE LastAction(SubSeq(log, 1, Len(log) - 1), p)

RunningCycles == {c \in CycleIds : cycle[c].pc # "idle"}

\* runAutoScan calls executeScanForShop for the tenant it is at
PipelineInvoked(c) == cycle[c].pc = "loop" /\ cycle'[c].pc = "tenant"

\* runAutoScan is through with the tenant it is at
TenantEnds(c) == cycle[c].pc = "tenant" /\ cycle'[c].pc # "tenant"

\* the executor goes past the point before an item where the flag is read
ItemStarted(r) ==
    \/ scan[r].pc = "item" /\ scan'[r].pc = "mutate"
    \/ scan[r].pc = "tag" /\ scan'[r] # scan[r]

\* the executor is through with an item
ItemEnds(r) ==
    /\ scan[r].pc \in {"finish", "tag", "draft"}
    /\ scan'[r].processed = scan[r].processed + 1

\* the status change of the item the executor is through with was made
StatusChanged(r) == scan[r].pc = "finish" /\ scan[r].updateOk

\* what the executor and the log keep of a drafted product is kept
NoRollback ==
    /\ \A p \in Products : product[p].status = "DRAFT" => product'[p].status = "DRAFT"
    /\ Len(activityLog') >= Len(activityLog)
    /\ SubSeq(activityLog', 1, Len(activityLog)) = activityLog

\* the cycle's final write for shop s, as one step
CycleWrote(c, s) ==
    /\ settings'[s].lastRunAt = cycle[c].now
    /\ settings'[s].lastScanType = "AUTO"
    /\ settings'[s].lastScanResults = scan[c].deactivatedItems
    /\ settings'[s].currentStatus = Idle

RunFields(row) == <<row.lastRunAt, row.lastScanType, row.lastScanResults>>

BatchRunning(s) == \E r \in Runners : scan[r].pc # "idle" /\ scan[r].shop = s

Quiescent ==
    /\ manual.pc = "idle"
    /\ \A h \in HookIds : hook[h].pc = "idle"
    /\ \A r \in Runners : scan[r].pc = "idle"

\* C1: at every moment at most one scheduled scan cycle (runAutoScan) is
\* executing in the process.
C1_AtMostOneCycle == Cardinality(RunningCycles) <= 1

\* C2: the scheduler invokes the fetch/classify/deactivate pipeline of a
\* tenant only while the tenant's isActive flag is on, also when the flag was
\* switched off after the tick had enumerated the tenant as enabled.
C2_DisabledNeverScanned ==
    [][\A c \in CycleIds :
          PipelineInvoked(c) => settings[scan'[c].shop].isActive]_vars

\* C3: cooperative stop: once the flag has been switched off during a batch
\* that began with the flag on, no further candidate passes its pre-item
\* point (so it is neither mutated nor logged), and what was processed before
\* stays drafted and logged.
C3_CooperativeStop ==
    [][/\ \A r \in CycleIds :
             ItemStarted(r) /\ scan[r].startedActive => settings[scan[r].shop].isActive
       /\ NoRollback]_vars

\* C4: a notification handled after a REACTIVATE entry was written for the
\* product (a second call in succession) finds no marker tag and does nothing.
C4_SecondCallNoOp ==
    [][\A h \in HookIds :
          hook[h].pc = "lookup" /\ hook'[h].pc = "update"
              => LastAction(activityLog, hook'[h].productId) # "REACTIVATE"]_vars

\* C5: the scheduled batch executor returns exactly the candidates whose
\* status change succeeded, writes one AUTO deactivation entry for each of
\* them and none for the others, and the tenant's currentStatus is IDLE once
\* the scheduler is through with the batch.
C5_BatchResult ==
    [][\A r \in CycleIds :
          /\ ItemEnds(r) =>
                IF StatusChanged(r)
                THEN /\ scan'[r].deactivatedItems =
                            Append(scan[r].deactivatedItems, Current(r))
                     /\ Len(activityLog') = Len(activityLog) + 1
                     /\ LET e == activityLog'[Len(activityLog')]
                        IN  /\ e.shop = scan[r].shop
                            /\ e.productId = Current(r)
                            /\ e.method = "AUTO"
                            /\ IsDeactivate(e.action)
                ELSE /\ scan'[r].deactivatedItems = scan[r].deactivatedItems
                     /\ activityLog' = activityLog
          /\ TenantEnds(r) => settings'[scan[r].shop].currentStatus = Idle]_vars

\* C6: an entry is appended to the activity log only for a transition that
\* succeeded remotely: a manual entry for a product whose status change the
\* request made, a webhook entry for an update that reported no error.
C6_LogOnlyOnSuccess ==
    [][Len(activityLog') > Len(activityLog) =>
          LET e == activityLog'[Len(activityLog')]
          IN  /\ e.method = "MANUAL" => e.productId \in manual.applied
              /\ e.method = "WEBHOOK" =>
                    \E h \in HookIds : /\ hook[h].pc = "log"
                                       /\ hook'[h].pc = "idle"
                                       /\ hook[h].updateOk]_vars

\* C7: whenever no handler is in flight, a product carries the marker tag if
\* and only if the most recent entry logged for it is a deactivation.
C7_MarkerIffLastDeactivate ==
    Quiescent =>
        \A p \in Products :
            product[p].tagged <=> IsDeactivate(LastAction(activityLog, p))

\* C8: when a tenant's pipeline ended with an error, the scheduler leaves the
\* tenant's currentStatus IDLE, goes on to the remaining due tenants of the
\* tick, and the tenant (if still enabled) is due again at the next tick.
C8_FailedTenantSkippedOnce ==
    [][\A c \in CycleIds :
          TenantEnds(c) /\ scan[c].error =>
              LET shop == scan[c].shop
                  list == cycle[c].settingsList
                  j == NextDue(list, cycle[c].i + 1, cycle[c].now)
              IN  /\ settings'[shop].currentStatus = Idle
                  /\ settings'[shop].isActive =>
                        IsDue(Row(shop, settings'[shop]), cycle[c].now + TickSeconds)
                  /\ IF j <= Len(list)
                     THEN cycle'[c].pc = "loop" /\ cycle'[c].i = j
                     ELSE cycle'[c].pc = "idle"]_vars

\* C9: lastRunAt, lastScanType and lastScanResults of a tenant change only in
\* the final write of a scheduled cycle, and that one write leaves
\* lastRunAt = now, lastScanType = AUTO, lastScanResults = the returned list
\* and currentStatus = IDLE together; a cycle that completes without error
\* makes this write.
C9_FinalWriteTogether ==
    [][\A s \in Shops :
          /\ RunFields(settings'[s]) # RunFields(settings[s]) =>
                \E c \in CycleIds :
                    TenantEnds(c) /\ scan[c].shop = s /\ CycleWrote(c, s)
          /\ \A c \in CycleIds :
                TenantEnds(c) /\ scan[c].shop = s /\ ~scan[c].error => CycleWrote(c, s)]_vars

\* a v2 cycle has completed for a tenant with a non-empty result
C9_Witness ==
    \E s \in Shops :
        /\ revision = "v2"
        /\ settings[s].lastRunAt # NoTime
        /\ settings[s].lastScanType = "AUTO"
        /\ settings[s].lastScanResults # <<>>
        /\ settings[s].currentStatus = Idle

\* C10: once no batch is running for a tenant, whatever started it, the
\* tenant's currentStatus is IDLE.
C10_IdleWhenNoBatch ==
    \A s \in Shops : ~BatchRunning(s) => settings[s].currentStatus = Idle

\* the executor is inside its candidate loop
InLoop(r) == scan[r].pc \in {"item", "mutate", "finish", "tag", "draft"}

\* C11: a failure of one item never aborts the batch: the failed item is
\* left out of the result and of the log, and the executor goes on to the
\* next candidate; it leaves the loop only at the end of the list or when
\* the stop flag is off.
C11_ItemFailureContained ==
    [][\A r \in CycleIds :
          /\ ItemEnds(r) /\ ~StatusChanged(r) =>
                /\ scan'[r].deactivatedItems = scan[r].deactivatedItems
                /\ activityLog' = activityLog
          /\ InLoop(r) /\ ~InLoop(r)' =>
                \/ scan'[r].pc = "done" /\ scan'[r].processed = Len(scan[r].candidates)
                \/ scan'[r].pc = "done" /\ ~settings[scan[r].shop].isActive]_vars

\* C12: a failed tag-add does not block the status change: an item whose tag
\* operation failed and whose status change to draft succeeded gets exactly
\* one log entry and is in the returned subset.
C12_TagFailureStillLogged ==
    [][\A r \in CycleIds :
          ItemEnds(r) /\ StatusChanged(r) /\ ~scan[r].tagOk =>
             /\ scan'[r].deactivatedItems =
                    Append(scan[r].deactivatedItems, Current(r))
             /\ activityLog' \in {Append(activityLog, e) :
                                     e \in {LogEntry(scan[r].shop, Current(r), "AUTO", a) :
                                               a \in {"DEACTIVATE", "AUTO-DEACTIVATE"}}}]_vars

\* the row a due-time computation was applied to
Probed == settings[probe.shop]

\* C13: with the unit minutes an enabled tenant is due if it never ran, and
\* otherwise exactly when now >= lastRunAt + value minutes, whatever fields
\* of lastRunAt the addition carries into.
C13_MinutesDue ==
    probe.fn = "shouldRun" /\ Probed.frequencyUnit = "minutes" =>
       (probe.result <=>
           \/ Probed.lastRunAt = NoTime
           \/ clock >= Probed.lastRunAt + Probed.frequency * SecondsPerMinute)

\* lastRunAt with its calendar date advanced by n days: the instant at which
\* the local wall clock shows the time of day of t, n dates later
AddCalendarDays(zone, t, n) == UTC(zone, LocalTime(zone, t) + n * SecondsPerDay)

\* C14: with the unit days the next run is lastRunAt with its calendar date
\* advanced by value days, in every computation of the due instant: the
\* scheduler's decision and the next run shown by the pages.
C14_DaysByCalendarDate ==
    probe.fn # "none" /\ Probed.frequencyUnit = "days" /\ Probed.lastRunAt # NoTime =>
       LET due == AddCalendarDays(timeZone, Probed.lastRunAt, Probed.frequency)
       IN  IF probe.fn = "shouldRun"
           THEN probe.result <=> clock >= due
           ELSE probe.result = due

\* a step of the notification handler that sends the reactivate mutation or
\* writes a log entry
HookActs(h) ==
    /\ hook'[h] # hook[h]
    /\ product' # product \/ activityLog' # activityLog \/ hook[h].pc \in {"update", "log"}

\* C15: the notification handler sends no mutation and writes no log entry
\* unless the payload's available is present and positive, the inventory
\* item resolves to a product and the product's tags hold the marker.
C15_HookGuard ==
    [][\A h \in HookIds :
          /\ HookActs(h) =>
                /\ hook[h].pc \in {"update", "log"}
                /\ hook[h].available # Undefined /\ hook[h].available > 0
                /\ hook[h].productId \in Products
          /\ hook[h].pc # "update" /\ hook'[h].pc = "update" =>
                /\ hook[h].pc = "lookup"
                /\ hook[h].item \in Products
                /\ hook'[h].productId = hook[h].item
                /\ product[hook[h].item].tagged
          /\ hook[h].pc # "log" /\ hook'[h].pc = "log" => hook[h].pc = "update"]_vars

C15_Witness ==
    \E h \in HookIds :
        /\ hook[h].pc = "log"
        /\ hook[h].available > 0
        /\ hook[h].productId \in Products

\* C16: the handler's log entry is written only if the combined update
\* succeeded; it is one REACTIVATE / WEBHOOK entry for the product of the
\* lookup, and the product is then active and unmarked.
C16_LogAfterSuccessfulUpdate ==
    [][\A h \in HookIds :
          hook[h].pc = "log" /\ hook'[h].pc = "idle" =>
             /\ hook[h].updateOk /\ hook[h].tagOk
             /\ activityLog' = Append(activityLog,
                                      LogEntry(hook[h].shop, hook[h].productId,
                                               "WEBHOOK", "REACTIVATE"))]_vars

RECURSIVE ReactivationsSince(_, _)
\* the number of REACTIVATE entries for p that follow the last deactivation
\* logged for p
ReactivationsSince(log, p) ==
    IF log = <<>> THEN 0
    ELSE LET e == log[Len(log)]
             front == SubSeq(log, 1, Len(log) - 1)
         IN  IF e.productId # p THEN ReactivationsSince(front, p)
             ELSE IF e.action = "REACTIVATE" THEN 1 + ReactivationsSince(front, p)
             ELSE 0

\* C17: however often a notification is delivered, and however deliveries
\* overlap, at most one REACTIVATE entry is written for one deactivation of
\* a product.
C17_OneReactivationPerDeactivation ==
    \A p \in Products : ReactivationsSince(activityLog, p) <= 1

\* the latest last-update timestamp among the variants that have a level
MaxUpdatedAt ==
    LET stamps == {probe.node.variants[i].updatedAt :
                     i \in {j \in DOMAIN probe.node.variants : probe.node.variants[j].hasLevel}}
    IN  IF stamps = {} THEN 0 ELSE CHOOSE t \in stamps : \A u \in stamps : u <= t

\* category contains "gift card" or equals "giftcard", in any letter case
GiftCardRule(productType) ==
    LET lower == toLowerCase(productType)
    IN  IncludesGiftCard(lower) \/ lower = "giftcard"

\* all variants tracked, all showing zero available, and the latest update
\* more than the threshold ago
Qualifies ==
    /\ ~GiftCardRule(probe.node.productType)
    /\ \A i \in DOMAIN probe.node.variants :
          /\ probe.node.variants[i].tracked
          /\ probe.node.variants[i].hasLevel
          /\ probe.node.variants[i].available = 0
    /\ MaxUpdatedAt > 0
    /\ clock - MaxUpdatedAt > probe.minDays * SecondsPerDay

\* C18: a product that is no gift card, whose variants are all tracked and
\* all show zero available, and whose latest last-update lies more than
\* threshold * 86400 seconds back, is a candidate, and its inactivityDays is
\* the floor of the elapsed seconds over 86400.
C18_ClassifierPositive ==
    probe.fn \in {"scanAndDeactivate", "scanOldProducts"} /\ Qualifies =>
       /\ probe.candidate
       /\ probe.daysInactive * SecondsPerDay <= clock - MaxUpdatedAt
       /\ clock - MaxUpdatedAt < (probe.daysInactive + 1) * SecondsPerDay

C18_Witness ==
    /\ probe.fn = "scanOldProducts"
    /\ Qualifies
    /\ Len(probe.node.variants) > 1
    /\ probe.minDays = 1
    /\ probe.daysInactive = 1

\* C19: a product with an untracked variant, or with a variant showing
\* available > 0, is never a candidate, wherever that variant stands and
\* whatever the timestamps, in the scheduled and in the manual scan.
C19_ClassifierNegative ==
    /\ probe.fn \in {"scanAndDeactivate", "scanOldProducts"}
    /\ \E i \in DOMAIN probe.node.variants :
          \/ ~probe.node.variants[i].tracked
          \/ probe.node.variants[i].hasLevel /\ probe.node.variants[i].available > 0
    => ~probe.candidate

\* C20: a product whose category contains "gift card" or equals "giftcard",
\* in any letter case, is never a candidate, in the scheduled and in the
\* manual scan.
C20_GiftCardExcluded ==
    /\ probe.fn \in {"scanAndDeactivate", "scanOldProducts"}
    /\ GiftCardRule(probe.node.productType)
    => ~probe.candidate

\* the classifiers' answers
Scans == {"scanAndDeactivate", "scanOldProducts"}

\* C21: a product none of whose variants yields an inventory-level
\* timestamp (no variants, or none with an inventory level) is never a
\* candidate, whatever the threshold.
C21_NoTimestampNoCandidate ==
    /\ probe.fn \in Scans
    /\ \A i \in DOMAIN probe.node.variants : ~probe.node.variants[i].hasLevel
    => ~probe.candidate

C21_Witness ==
    /\ probe.fn = "scanAndDeactivate"
    /\ probe.node.productType = ""
    /\ Len(probe.node.variants) = 2
    /\ \A i \in DOMAIN probe.node.variants :
          probe.node.variants[i].tracked /\ ~probe.node.variants[i].hasLevel
    /\ ~probe.candidate

\* C27: the inactivity instant is the latest of the variants' last-update
\* timestamps: a product with a variant touched within the threshold is not
\* a candidate, however long ago the others were touched and wherever that
\* variant stands.
C27_LatestUpdateDecides ==
    /\ probe.fn \in Scans
    /\ \E i \in DOMAIN probe.node.variants :
          /\ probe.node.variants[i].hasLevel
          /\ clock - probe.node.variants[i].updatedAt <= probe.minDays * SecondsPerDay
    => ~probe.candidate

C27_Witness ==
    /\ probe.fn = "scanAndDeactivate"
    /\ probe.node.productType = ""
    /\ probe.minDays = DefaultMinDays
    /\ Len(probe.node.variants) = 2
    /\ \A i \in DOMAIN probe.node.variants :
          /\ probe.node.variants[i].tracked
          /\ probe.node.variants[i].hasLevel
          /\ probe.node.variants[i].available = 0
    /\ clock - probe.node.variants[1].updatedAt < 2 * SecondsPerDay
    /\ clock - probe.node.variants[2].updatedAt > DefaultMinDays * SecondsPerDay
    /\ ~probe.candidate

\* C28: the threshold comparison is strict: a product whose elapsed time is
\* exactly threshold * 86400 seconds is not a candidate, and every candidate
\* a scan produces has inactivityDays >= the threshold of that scan.
C28_StrictThreshold ==
    probe.fn \in Scans =>
       /\ MaxUpdatedAt > 0 /\ clock - MaxUpdatedAt = probe.minDays * SecondsPerDay
             => ~probe.candidate
       /\ probe.candidate => probe.daysInactive >= probe.minDays

C28_Witness ==
    /\ probe.fn = "scanOldProducts"
    /\ Qualifies
    /\ probe.candidate
    /\ probe.daysInactive = probe.minDays
    /\ clock - MaxUpdatedAt = probe.minDays * SecondsPerDay + 1

\* C22: a page fetch that fails (exception or response without product
\* data) after at least one page was read ends the paging and keeps the
\* candidates of the earlier pages: the scheduled scan goes on to the batch
\* with them without failing the tenant's cycle, and the manual scan returns
\* them.
C22_PartialResultsKept ==
    [][/\ \A r \in CycleIds :
             scan[r].pc = "fetch" /\ scan[r].cursor > 0 /\ scan'[r] # scan[r] =>
                /\ ~scan'[r].error
                /\ scan'[r].pc \in {"fetch", "item", "tag", "done"}
                /\ SubSeq(scan'[r].candidates, 1, Len(scan[r].candidates))
                      = scan[r].candidates
                /\ scan'[r].pc = "done" => scan[r].candidates = <<>>
       /\ manual.pc = "scan" /\ manual.k > 0 /\ manual' # manual =>
             /\ manual'.pc \in {"scan", "scanned"}
             /\ SubSeq(manual'.products, 1, Len(manual.products)) = manual.products]_vars

C24_EmptySuccessOnlyAfterFullFetch ==
    [][/\ manual.pc = "scanned"
       /\ manual'.pc = "idle"
       /\ settings'[manual.shop].lastScanType = "MANUAL"
       /\ settings'[manual.shop].lastScanResults = <<>>
       => ~manual.noData]_vars

\* C25: every settings write is a merge keyed by shop: it changes one row;
\* a save of the settings form leaves lastRunAt, lastScanType,
\* lastScanResults and currentStatus as they were, and a write of the manual
\* scan, of the scheduler or of the batch leaves isActive, frequency,
\* frequencyUnit and minDaysInactive as they were.
C25_WritesAreMerges ==
    [][/\ Cardinality({s \in Shops : settings'[s] # settings[s]}) <= 1
       /\ \A s \in Shops :
             IF savesLeft' # savesLeft
             THEN /\ RunFields(settings'[s]) = RunFields(settings[s])
                  /\ settings'[s].currentStatus = settings[s].currentStatus
             ELSE /\ settings'[s].isActive = settings[s].isActive
                  /\ settings'[s].frequency = settings[s].frequency
                  /\ settings'[s].frequencyUnit = settings[s].frequencyUnit
                  /\ settings'[s].minDaysInactive = settings[s].minDaysInactive]_vars

\* a save and a manual scan have both written the row of s1, and the row
\* shows both: the switch is off and the last scan is the manual one
C25_Witness ==
    /\ manual.pc = "idle"
    /\ manualLeft < MaxManual
    /\ savesLeft < MaxSaves
    /\ ~settings["s1"].isActive
    /\ settings["s1"].lastScanType = "MANUAL"
    /\ settings["s1"].lastRunAt = clock
    /\ settings["s1"].lastScanResults # <<>>

C29_OneAtATimeInOrder ==
    [][\A r \in CycleIds :
          InLoop(r) /\ scan'[r] # scan[r] =>
             LET item == scan[r].candidates[scan[r].processed + 1]
                 before == scan[r].deactivatedItems
                 after == scan'[r].deactivatedItems
             IN  /\ \A p \in Products \ {item} : product'[p] = product[p]
                 /\ \/ activityLog' = activityLog
                    \/ activityLog' = Append(activityLog,
                                             LogEntry(scan[r].shop, item, "AUTO",
                                                      "AUTO-DEACTIVATE"))
                 /\ scan'[r].candidates = scan[r].candidates
                 /\ scan'[r].processed \in {scan[r].processed, scan[r].processed + 1}
                 /\ scan'[r].processed = scan[r].processed =>
                       after = before /\ activityLog' = activityLog
                 /\ after \in {before, Append(before, item)}
                 /\ after = SelectFrom(scan[r].candidates, 1, Range(after))]_vars

\* a cycle has deactivated both candidates of a tenant and is about to
\* return them
C29_Witness ==
    \E r \in CycleIds :
       /\ scan[r].pc = "done"
       /\ scan[r].candidates = <<"p1", "p2">>
       /\ scan[r].deactivatedItems = <<"p1", "p2">>
       /\ Len(activityLog) >= 2
\* C30: after the k-th processed item of a batch of total candidates the
\* status "Deactivating: k/total items..." is written exactly when k is a
\* multiple of 10 or k = total; failed items count as processed; no written
\* k is above total or below the k written before.
C30_ProgressEveryTen ==
    [][probe.fn = "batch" /\ probe' # probe =>
          LET k == probe'.processed
              total == probe.total
              before == settings[probe.shop].currentStatus
              after == settings'[probe.shop].currentStatus
          IN  /\ k = probe.processed + 1
              /\ IF k % ProgressEvery = 0 \/ k = total
                 THEN probe'.fn = "batch" => after = Deactivating(k, total)
                 ELSE after = before
              /\ after.processed <= after.total
              /\ after.processed >= before.processed]_vars

\* the status of the tenth item of a longer batch in which an item failed
C30_Witness ==
    /\ probe.fn = "batch"
    /\ probe.total > ProgressEvery
    /\ probe.processed = ProgressEvery + 1
    /\ probe.deactivated < probe.processed
    /\ settings[probe.shop].currentStatus = Deactivating(ProgressEvery, probe.total)

\* C31: while a cycle is executing a tenant's pipeline, from before the
\* first page fetch until the cycle's final settings write, the tenant's
\* currentStatus is an in-progress value and never "IDLE".
C31_InProgressWhilePipeline ==
    \A c \in CycleIds :
       cycle[c].pc = "tenant" => settings[scan[c].shop].currentStatus # Idle

\* C32: the scheduler is a singleton of the process: at any moment at most
\* one of its timers is set, a timer is set only once initScheduler has run,
\* and a call of initScheduler after the first changes nothing.
C32_SchedulerSingleton ==
    /\ timerArmed <= 1
    /\ timerArmed = 1 => schedulerInterval \/ schedulerStarted
    /\ schedulerInterval \/ schedulerStarted =>
          ~ENABLED <<initScheduler \/ initScheduler_v1>>_vars

\* initScheduler has run, its timer has fired at least once and a timer is
\* set again (v2) or still (v1): a further call finds the guard set
C32_Witness ==
    /\ schedulerInterval \/ schedulerStarted
    /\ timerArmed = 1
    /\ ~timerDue
    /\ clock > StartTime
    /\ \E s \in Shops : settings[s].lastRunAt # NoTime

\* C33: the tick loop of the scheduler with the setTimeout chain never
\* stops: once initScheduler has run, exactly one timer is set whenever no
\* cycle is in flight, whatever the last tick did (skipped, completed,
\* threw); a set timer becomes due when its delay elapses, its callback then
\* runs, and a timer is always set again.
C33_TickLoopNeverStops ==
    /\ [](revision = "v2" /\ schedulerInterval => (timerArmed = 1 <=> ~isScanning))
    /\ [][revision = "v2" /\ clock' # clock /\ timerArmed = 1 => timerDue']_vars
    /\ (revision = "v2" /\ timerDue ~> ~timerDue)
    /\ (revision = "v2" /\ schedulerInterval ~> timerArmed = 1)

\* the second tick has fired, after a cycle in which a tenant's pipeline
\* threw, and the next timer is set
C33_Witness ==
    /\ revision = "v2"
    /\ clock = StartTime + 2 * TimeoutSeconds
    /\ timerArmed = 1
    /\ ~timerDue
    /\ ~isScanning
    /\ \E s \in Shops : settings[s].isActive /\ settings[s].lastRunAt = NoTime
    /\ \E s \in Shops : settings[s].lastRunAt = StartTime + TimeoutSeconds

---------------------------------------------------------------------------
\* Stock returns for a product of the catalog: its inventory level becomes
\* positive and the platform delivers inventory_levels/update to the handler
Restock(h, p) ==
    /\ hooksLeft > 0
    /\ hook[h].pc = "idle"
    /\ product[p].stock <= 0
    /\ \E available \in {a \in Availables : StockReturned(a)} :
          /\ product' = [product EXCEPT ![p].stock = available]
          /\ hook' = [hook EXCEPT ![h] = [IdleHook EXCEPT !.pc = "lookup", !.shop = "s1",
                                                         !.item = p,
                                                         !.available = available]]
    /\ hooksLeft' = hooksLeft - 1
    /\ UNCHANGED activityLog
    /\ UNCHANGED HookFrame

\* The scheduler next to the notification handler, with stock returning for
\* the first product of the catalog
SpecRace ==
    Init /\ [][\/ SchedulerNext
               \/ ScanNext
               \/ Restock(1, Catalog("s1")[1])
               \/ HookLookup(1) \/ HookUpdate(1) \/ HookLog(1)]_vars

\* C35: a scheduled cycle does not deactivate (draft and marked) a product
\* that has stock, unless a notification for that product is still being
\* handled, whose lookup then finds the marker and reactivates it: no
\* interleaving of the cycle and the handler leaves a product deactivated
\* while it has stock.
C35_NoDeactivatedWithStock ==
    [][revision = "v2" =>
          \A p \in Products :
              /\ product'[p].status = "DRAFT" /\ product'[p].tagged
              /\ ~(product[p].status = "DRAFT" /\ product[p].tagged)
              /\ product[p].stock > 0
              => \E h \in HookIds : hook[h].pc # "idle" /\ hook[h].item = p]_vars
\* C36: the manual scan and the scheduled scan are the same classifier: on
\* every node, threshold and clock, what one of them answers (candidate or
\* not, and the candidate's daysInactive) is what the other answers.
C36_SameClassifier ==
    probe.fn \in Scans =>
        LET scheduled == Classify(probe.node, clock, probe.minDays)
            manually == Classify_manual(probe.node, clock, probe.minDays)
        IN  /\ probe.candidate = scheduled.candidate
            /\ probe.candidate = manually.candidate
            /\ probe.candidate => /\ probe.daysInactive = scheduled.daysInactive
                                  /\ probe.daysInactive = manually.daysInactive
\* C37: after every scheduled cycle for a tenant, completed or failed
\* part-way, lastScanResults with lastScanType AUTO is the list of the
\* products for which that cycle wrote a deactivation log entry: the batch
\* collects a product exactly when it logs it, and what it collected is in
\* the tenant's row once the scheduler is through with the tenant.
C37_ResultSetMatchesLog ==
    [][revision = "v2" =>
          \A c \in CycleIds :
              /\ scan[c].pc \in {"item", "mutate", "finish"} /\ scan'[c].pc # "idle" =>
                    IF activityLog' # activityLog
                    THEN /\ activityLog' =
                               Append(activityLog,
                                      LogEntry(scan[c].shop, Current(c),
                                               "AUTO", "AUTO-DEACTIVATE"))
                         /\ scan'[c].deactivatedItems =
                               Append(scan[c].deactivatedItems, Current(c))
                    ELSE scan'[c].deactivatedItems = scan[c].deactivatedItems
              /\ TenantEnds(c) =>
                    /\ settings'[scan[c].shop].lastScanResults = scan[c].deactivatedItems
                    /\ scan[c].deactivatedItems # <<>> =>
                          settings'[scan[c].shop].lastScanType = "AUTO"]_vars
---------------------------------------------------------------------------
\* The due computation next to the dashboard's manual scan, over the rows,
\* clocks and time zones of InitDue
SpecDueManual ==
    InitDue /\ [][ManualScanNext \/ \E shop \in Shops : CallShouldRun(shop)]_vars

\* C38: the due computation does not distinguish what wrote lastRunAt: a
\* manual scan that completes at M writes lastRunAt = M and MANUAL, and the
\* scheduler's shouldRun does not select an enabled tenant whose row a
\* manual scan wrote at M before M plus the tenant's interval.
C38_ManualRunDefersAuto ==
    [][/\ manual.pc = "scanned" /\ manual'.pc = "idle" =>
             /\ settings'[manual.shop].lastRunAt = clock
             /\ settings'[manual.shop].lastScanType = "MANUAL"
       /\ probe.fn = "none" /\ probe'.fn = "shouldRun" =>
             LET row == settings[probe'.shop]
                 interval == row.frequency * (IF row.frequencyUnit = "minutes"
                                              THEN SecondsPerMinute
                                              ELSE SecondsPerDay)
             IN  /\ row.isActive
                 /\ row.lastScanType = "MANUAL"
                 /\ clock < row.lastRunAt + interval
                 => ~probe'.result]_vars
---------------------------------------------------------------------------
\* a clearLogs that deletes without its where clause
clearLogs_All(shop) ==
    /\ activityLog' = <<>>
    /\ UNCHANGED <<revision, timeZone, probe, clock, settings, product, SchedulerVars, cycle,
                   scan, debugLeft, savesLeft, AuditVars>>

\* The clearLogs action of the dashboard, of the manual page and of the
\* activity page: db.activityLog.deleteMany({ where: { shop } })
clearLogs(shop) ==
    /\ activityLog' = SelectSeq(activityLog, LAMBDA e : e.shop # shop)
    /\ UNCHANGED <<revision, timeZone, probe, clock, settings, product, SchedulerVars, cycle,
                   scan, debugLeft, savesLeft, AuditVars>>

\* Every operation of the application, in three scenarios: the scheduler
\* and its batches while the clock runs; once it has stopped, either the
\* settings saves, or the manual scans and deactivations and the
\* notifications that report stock.  Clear history is possible throughout;
\* a request or a delivery begins when no other and no batch is in flight
InitIsolation ==
    /\ revision \in {"v1", "v2"}
    /\ timeZone = "UTC"
    /\ probe = NoProbe
    /\ clock \in {StartTime, StartTime + MaxTicks * TickSeconds}
    /\ settings = [s \in Shops |->
                      Merge(DefaultSettings,
                            [isActive |-> TRUE, frequencyUnit |-> "minutes",
                             frequency |-> IF s = "s1" THEN 2 ELSE 1])]
    /\ activityLog = <<>>
    /\ product = [p \in Products |-> [status |-> "ACTIVE", tagged |-> FALSE, stock |-> 0]]
    /\ schedulerInterval = FALSE
    /\ schedulerStarted = FALSE
    /\ timerArmed = 0
    /\ timerDue = FALSE
    /\ isScanning = FALSE
    /\ cycle = [c \in CycleIds |-> IdleCycle]
    /\ scan = [r \in Runners |-> IdleScan]
    /\ manual = IdleManual
    /\ hook = [h \in HookIds |-> IdleHook]
    /\ debugLeft = MaxDebug
    /\ savesLeft \in {0, MaxSaves}
    /\ manualLeft \in {0, MaxManual}
    /\ hooksLeft = IF manualLeft = 0 THEN 0 ELSE MaxHooks
    /\ clock = StartTime <=> savesLeft = 0 /\ manualLeft = 0
    /\ savesLeft = 0 \/ manualLeft = 0

SpecIsolation ==
    InitIsolation /\
    [][\/ SchedulerNext
       \/ ScanNext
       \/ Quiescent /\
             \/ SettingsNext
             \/ \E shop \in Shops : scan_manual(shop, DefaultMinDays)
             \/ \E shop \in Shops : \E products \in Selections(shop) :
                   deactivate(shop, products)
             \/ \E shop \in Shops :
                   \E item \in Range(Catalog(shop)) \cup {"none"} :
                      \E available \in {a \in Availables : StockReturned(a)} :
                         webhook(1, shop, item, available)
             \/ \E shop \in Shops : clearLogs(shop)
       \/ ManualFetchPage \/ ManualScanDone
       \/ ManualTagAdd \/ ManualSetDraft \/ ManualLog
       \/ \E h \in HookIds : HookLookup(h) \/ HookUpdate(h) \/ HookLog(h)]_vars

\* C39: tenant isolation: a step of an operation performed for shop A (the
\* scheduler's cycle at A and A's batch, a manual scan, a manual
\* deactivation, a settings save, clear history, the handling of a
\* notification) leaves the settings row of every other shop B and B's
\* entries of the activity log as they were.
C39_TenantIsolation ==
    [][\A A \in Shops :
          LET Entries(log, s) == SelectSeq(log, LAMBDA e : e.shop = s)
              OperationFor ==
                  \/ \E c \in CycleIds :
                        \/ NextTenant(c) /\ scan'[c].shop = A
                        \/ (TenantDone(c) \/ TenantFailed(c)) /\ scan[c].shop = A
                  \/ \E r \in Runners :
                        scan[r].pc # "idle" /\ scan[r].shop = A /\ scan'[r] # scan[r]
                  \/ /\ manual' # manual
                     /\ A = IF manual.pc = "idle" THEN manual'.shop ELSE manual.shop
                  \/ \E h \in HookIds :
                        /\ hook'[h] # hook[h]
                        /\ A = IF hook[h].pc = "idle" THEN hook'[h].shop ELSE hook[h].shop
                  \/ saveSettings(A, ~settings[A].isActive, settings[A].frequency,
                                  settings[A].frequencyUnit, settings[A].minDaysInactive)
                  \/ clearLogs(A)
          IN  OperationFor =>
                 \A B \in Shops \ {A} :
                    /\ settings'[B] = settings[B]
                    /\ Entries(activityLog', B) = Entries(activityLog, B)]_vars

\* one cycle has deactivated and logged the products of s1 and then run the
\* pipeline of s2: the row and the entries of s1 are as its own run left them
C39_Witness ==
    /\ settings["s1"].lastScanType = "AUTO"
    /\ settings["s1"].lastScanResults = Catalog("s1")
    /\ settings["s2"].lastScanType = "AUTO"
    /\ settings["s2"].lastRunAt = settings["s1"].lastRunAt
    /\ Len(activityLog) = Len(Catalog("s1"))
    /\ \A i \in DOMAIN activityLog : activityLog[i].shop = "s1"

\* C40: the notification handler reactivates a product only when the
\* tenant's autoReactivate setting is true: with the setting false, a
\* notification for a marked product causes no mutation and no log entry.
C40_ReactivateOnlyWhenEnabled ==
    [][\A h \in HookIds :
          HookActs(h) => settings[hook[h].shop].autoReactivate]_vars

====
